---- MODULE Spec2Model ----
(***************************************************************************)
(* Model of the hearing_support streaming pipeline.                        *)
(*                                                                         *)
(* The repository holds several variants of one small program: a WebRTC   *)
(* capture callback (recv) that puts every frame on audio_queue and        *)
(* returns it to the output sink, an AudioProcessingThread that takes      *)
(* frames off the queue, transforms and meters them (and, in the variants  *)
(* with speech recognition, feeds a Vosk recognizer), and the Streamlit    *)
(* script, re-run from top to bottom on every user interaction, that       *)
(* starts and stops the thread and drains volume_queue and                 *)
(* transcription_queue into st.session_state.                              *)
(*                                                                         *)
(* Spec        the threaded pipeline; `variant` selects the source file    *)
(*             (hearing_supportWeb.py, hearing_supportWeb_GeminiFinal.py,  *)
(*             hearing_supportWeb_Gemini3.py, device_select.py).           *)
(* SpecTranscript  the recognizer-to-session-state path of                 *)
(*             hearing_supportWeb_GeminiFinal.py with the recognizer       *)
(*             returning any text, the stream playing throughout.          *)
(* SpecHistory the volume-history buffer of the variants that bound it     *)
(*             differently (hearing_supportWeb.py,                         *)
(*             hearing_supportWeb_ChatGPT.py, hearing_supportWeb_Copilot.py*)
(*             hearing_supportWeb_Gemini.py).                              *)
(* SpecLive    Spec with a fair processing thread.                         *)
(* SpecParams  the AudioParams object of hearing_supportWeb.py, written by *)
(*             the script and read by the thread.                          *)
(* SpecBackup  backUP/hearing_support1.py: the two buttons and the         *)
(*             recognize_worker threads.                                   *)
(* SpecFinals  the Final history of hearing_supportWeb_GeminiFinal.py and  *)
(*             hearing_supportWeb_ChatGPT.py.                              *)
(* SpecSignal  one frame through the capture callback and the processing:  *)
(*             samples, level, recognizer input, returned frame.           *)
(* SpecStartup Spec for the variants with a recognizer, the Vosk model     *)
(*             available or not.                                           *)
(***************************************************************************)
EXTENDS Integers, Sequences, FiniteSets, TLC

\* ------------------------------------------------------------------ bounds
\* Frames the capture side delivers in one behaviour.
MaxFrames == 3
\* AudioProcessingThread objects constructed in one behaviour.
MaxThreads == 2
\* Volume samples recorded in one behaviour of SpecHistory.
MaxSamples == 203
\* Samples waiting in volume_queue in SpecHistory.
MaxPending == 2
\* Script runs that move the sliders in one behaviour of SpecParams.
MaxRuns == 2
\* Button presses in one behaviour of SpecBackup.
MaxPresses == 3
\* Script runs of hearing_supportWeb_ChatGPT.py in one behaviour.
MaxPasses == 3
\* Samples in a frame of SpecSignal.
MaxFrameLen == 2
\* Failed starts reported in one behaviour of SpecStartup.
MaxReports == 2
MaxCallbackFrames == 5

\* ------------------------------------------------------- program constants
VolumeHistoryMax == 100
ChatGPTHistoryMax == 200
CopilotHistoryMax == 50
GeminiDisplayMax == 50
\* np.clip(amplified_data, -32767, 32767)
ClipMax == 32767
\* vosk.KaldiRecognizer(model, 16000)
RecognizerRate == 16000
\* device_select.py: GAIN_FACTOR = 4.0
GAIN_FACTOR == 4
\* Gemini: the recognizer is to be called for one frame in FeedEvery.
FeedEvery == 5

\* st.session_state.processing_thread = None
None == 0

Threads == 1..MaxThreads

\* The source files modelled by Spec.
PipelineVariants == {"Web", "GeminiFinal", "Gemini3", "device_select"}
\* The source files modelled by SpecHistory.
HistoryVariants == {"Web", "ChatGPT", "Copilot", "Gemini"}

VARIABLES
    variant,                \* which source file runs
    playing,                \* webrtc_ctx.state.playing
    audio_queue,            \* st.session_state.audio_queue (queue.Queue())
    nframes,                \* frames delivered to recv so far
    sinkLog,                \* frames recv has returned to the output sink
    processing_thread,      \* st.session_state.processing_thread (None or id)
    nthreads,               \* AudioProcessingThread objects constructed
    tstate,                 \* per thread: position in run()
    stop_event,             \* per thread: self.stop_event
    tframe,                 \* per thread: the frame run() holds (0: none)
    volume_queue,           \* st.session_state.volume_queue
    transcription_queue,    \* st.session_state.transcription_queue
    volume_history,         \* st.session_state.volume_history
    history,                \* st.session_state.history
    current_transcription,  \* st.session_state.current_transcription
    uiPc,                   \* position of the Streamlit script run
    uiError,                \* the script run raised an exception
    meterLog,               \* history variable: frames whose RMS was published
    recogLog,               \* history variable: frames given to AcceptWaveform
    doneAfterStop,          \* history variable: frames finished after stop()
    crashed,                \* history variable: why run() ended ("", stage)
    applied,                \* history variable: kinds of the events applied
    branch,                 \* history variable: the branch the script run took
    texts,                  \* the texts the recognizer may return
    recorded,               \* history variable: every sample ever recorded
    level_rms,              \* ChatGPT: AudioProcessor.level_rms
    audio_params,           \* st.session_state.audio_params (AudioParams)
    slider,                 \* the values the four sliders return in this run
    writePc,                \* slider assignments the script run has made
    local_params,           \* run(): gain_factor, ..., target_rms (locals)
    readPc,                 \* parameter reads run() has made for its frame
    writtenSets,            \* history variable: the parameter sets written
    nruns,                  \* script runs so far
    recognizer,             \* backUP: the recognizer the latest run created
    stop_flag,              \* backUP: st.session_state.stop_flag
    thread_started,         \* backUP: st.session_state.thread_started
    wrecog,                 \* backUP: per worker, the recognizer it names
    final_texts,            \* ChatGPT: AudioProcessor.final_texts
    partial_text,           \* ChatGPT: AudioProcessor.partial_text
    is_recognizing,         \* ChatGPT: st.session_state.is_recognizing
    frame,                  \* the frame handed to the capture callback
    returned,               \* the frame the capture callback returned
    processed,              \* the samples the processing ends with
    rms_after,              \* the level the processing publishes
    fed,                    \* the format of the PCM given to AcceptWaveform
    sigPc,                  \* where the frame is on its way
    model_available,        \* load_vosk_model() returns a model, not None
    reports,                \* failures of the start shown to the user
    lock,                   \* Gemini: VoskAudioProcessor.lock, who holds it
    recvPc                  \* position of the capture callback (recv)

vars == <<variant, playing, audio_queue, nframes, sinkLog, processing_thread,
          nthreads, tstate, stop_event, tframe, volume_queue,
          transcription_queue, volume_history, history, current_transcription,
          uiPc, uiError, meterLog, recogLog, doneAfterStop, crashed,
          applied, branch, texts, recorded, level_rms, audio_params, slider,
          writePc, local_params, readPc, writtenSets, nruns, recognizer,
          stop_flag, thread_started, wrecog, final_texts, partial_text,
          is_recognizing, frame, returned, processed, rms_after, fed, sigPc,
          model_available, reports, lock, recvPc>>

\* Variable groups, for UNCHANGED.
captureVars == <<audio_queue, nframes, sinkLog>>
threadVars == <<processing_thread, nthreads, tstate, stop_event, tframe,
                doneAfterStop, crashed>>
workerOut == <<volume_queue, transcription_queue, meterLog, recogLog>>
transcriptVars == <<history, current_transcription, applied>>
uiVars == <<uiPc, uiError, branch>>
histVars == <<volume_history, recorded, level_rms, texts>>
paramVars == <<audio_params, slider, writePc, local_params, readPc,
               writtenSets>>
\* The variables of the parts of the program the pipeline does not touch.
backupVars == <<recognizer, stop_flag, thread_started, wrecog>>
chatVars == <<final_texts, partial_text, is_recognizing>>
signalVars == <<frame, returned, processed, rms_after, fed, sigPc>>
startVars == <<model_available, reports>>
callbackVars == <<lock, recvPc>>
otherVars == <<paramVars, nruns, backupVars, chatVars, signalVars,
               startVars, callbackVars>>

\* ------------------------------------------------------------------- text
\* A text is a sequence of tokens; "partial:" is the tag the worker puts in
\* front of a partial result, kept as one token.
\* str.strip(): leading and trailing whitespace removed.
RECURSIVE LStrip(_)
LStrip(s) == IF s # <<>> /\ Head(s) = " " THEN LStrip(Tail(s)) ELSE s

RECURSIVE RStrip(_)
RStrip(s) ==
    IF s # <<>> /\ s[Len(s)] = " " THEN RStrip(SubSeq(s, 1, Len(s) - 1)) ELSE s

Strip(s) == RStrip(LStrip(s))

\* f"partial:{partial_text}"
TagPartial(s) == <<"partial:">> \o s

\* text.startswith("partial:")
StartsWithPartial(s) == s # <<>> /\ Head(s) = "partial:"

\* text.replace("partial:", ""): every occurrence removed.
RemovePartialTag(s) == SelectSeq(s, LAMBDA c : c # "partial:")

\* The texts the recognizer returns in Result()["text"] or
\* PartialResult()["partial"]: in Spec a whitespace-only and a plain text,
\* in SpecTranscript also the empty text, a second plain text and a text
\* that itself begins with the tag.
PipelineTexts == { <<" ">>, <<"a">> }
TranscriptTexts == { <<>>, <<" ">>, <<"a">>, <<"b">>, <<"partial:", "a">> }

\* ------------------------------------------------------------ the variants
\* The variants whose run() feeds a vosk.KaldiRecognizer.
HasRecognizer(v) == v \in {"GeminiFinal", "device_select"}

\* The variants whose run() has an `except Exception` clause around a frame.
CatchesException(v) == v = "Gemini3"

Alive(t) == tstate[t] \notin {"unborn", "dead"}

\* processing_thread.is_alive()
IsAlive == processing_thread # None /\ Alive(processing_thread)

\* The pipeline is Running when a processing thread exists and is alive.
Running == IsAlive

\* The order of the script's blocks in each variant.
FirstPhase(v) ==
    IF v \in {"Web", "device_select"} THEN "lifecycle" ELSE "volume"

AfterVolume(v) ==
    CASE v = "Web" -> "idle"
      [] v = "device_select" -> "transcribe"
      [] OTHER -> "lifecycle"

AfterLifecycle(v) ==
    CASE v \in {"Web", "device_select"} -> "volume"
      [] v = "GeminiFinal" -> "transcribe"
      [] OTHER -> "idle"

\* ----------------------------------------------------------------- queues
\* A capacity C below the number of frames the capture side delivers.
ClaimedCapacity == MaxFrames - 1

\* Mutant: a queue of capacity C that drops its oldest item when full.
PutDropOldest(q, x) ==
    IF Len(q) >= ClaimedCapacity THEN Append(Tail(q), x) ELSE Append(q, x)

\* Mutant: a put that is dropped while no processing thread runs.
PutIfRunning(q, x) == IF Running THEN Append(q, x) ELSE q

\* queue.Queue().put(item): no maxsize, so it appends and returns.
Put(q, x) == Append(q, x)

\* Mutant: a get that takes the newest item (a LIFO queue).
GetLast(q) == [item |-> q[Len(q)], rest |-> SubSeq(q, 1, Len(q) - 1)]

\* Mutant: a get that hands out the head and leaves it in the queue.
GetKeep(q) == [item |-> Head(q), rest |-> q]

\* queue.Queue().get() on a queue that holds an item: the item at the head,
\* and the queue without it.
Get(q) == [item |-> Head(q), rest |-> Tail(q)]

\* ---------------------------------------------------------------- capture
\* WebRtcAudioProcessor.recv: put the frame on the queue, return the frame.
\* Frames are delivered while the stream is playing.
Recv ==
    /\ playing
    /\ nframes < MaxFrames
    /\ LET f == nframes + 1 IN
        /\ audio_queue' = Put(audio_queue, f)
        /\ nframes' = f
        /\ sinkLog' = Append(sinkLog, f)
    /\ UNCHANGED <<variant, playing, threadVars, workerOut, transcriptVars,
                   uiVars, histVars, otherVars>>

\* The user presses START or STOP on the webrtc component.
TogglePlaying ==
    /\ playing' = ~playing
    /\ UNCHANGED <<variant, captureVars, threadVars, workerOut,
                   transcriptVars, uiVars, histVars, otherVars>>

\* ----------------------------------------------------------------- worker
\* Mutant: a loop that drains the queue before it honours the stop signal.
LoopExitsWhenDrained(t) == stop_event[t] /\ audio_queue = <<>>

\* Mutant: a loop that never tests the stop signal.
LoopNeverExits(t) == FALSE

\* Mutant: a loop that is left when the queue is found empty.
LoopExitsWhenIdle(t) == stop_event[t] \/ audio_queue = <<>>

\* `while not self.stop_event.is_set()`: whether the loop is left.
LoopExits(t) == stop_event[t]

LoopCheck(t) ==
    /\ tstate[t] = "check"
    /\ tstate' = [tstate EXCEPT ![t] = IF LoopExits(t) THEN "dead" ELSE "get"]
    /\ UNCHANGED <<variant, playing, captureVars, processing_thread, nthreads,
                   stop_event, tframe, doneAfterStop, crashed, workerOut,
                   transcriptVars, uiVars, histVars, otherVars>>

\* frame = self.audio_queue.get(timeout=1), a frame being there.
GetFrame(t) ==
    /\ tstate[t] = "get"
    /\ audio_queue # <<>>
    /\ tframe' = [tframe EXCEPT ![t] = Get(audio_queue).item]
    /\ audio_queue' = Get(audio_queue).rest
    /\ tstate' = [tstate EXCEPT ![t] = "transform"]
    /\ UNCHANGED <<variant, playing, nframes, sinkLog, processing_thread, nthreads, stop_event, doneAfterStop,
                   crashed, workerOut, transcriptVars, uiVars, histVars, otherVars>>

\* The get times out on the empty queue: queue.Empty, `continue`.
GetTimeout(t) ==
    /\ tstate[t] = "get"
    /\ audio_queue = <<>>
    /\ tstate' = [tstate EXCEPT ![t] = "check"]
    /\ UNCHANGED <<variant, playing, captureVars, processing_thread, nthreads,
                   stop_event, tframe, doneAfterStop, crashed, workerOut,
                   transcriptVars, uiVars, histVars, otherVars>>

\* The frame in hand is finished: back to the loop condition.
FrameDone(t) ==
    /\ tstate' = [tstate EXCEPT ![t] = "check"]
    /\ tframe' = [tframe EXCEPT ![t] = 0]
    /\ doneAfterStop' = [doneAfterStop EXCEPT
                            ![t] = IF stop_event[t] THEN @ + 1 ELSE @]
    /\ crashed' = crashed

\* An exception raised while the frame is processed: caught and logged where
\* run() has `except Exception`, and the end of run() (and of the thread)
\* where only queue.Empty is caught.
FrameRaises(t, stage) ==
    IF CatchesException(variant)
    THEN FrameDone(t)
    ELSE /\ tstate' = [tstate EXCEPT ![t] = "dead"]
         /\ crashed' = [crashed EXCEPT ![t] = stage]
         /\ UNCHANGED <<tframe, doneAfterStop>>

\* to_ndarray, equalizer, AGC, gain, clip, and the RMS put on volume_queue.
\* (A frame WebRTC delivers has samples, so the `size > 0` test of the
\* variants that have one passes.)
Transform(t) ==
    /\ tstate[t] = "transform"
    /\ \/ \* the transform succeeds
          /\ volume_queue' = Put(volume_queue, tframe[t])
          /\ meterLog' = Append(meterLog, tframe[t])
          /\ IF HasRecognizer(variant)
             THEN /\ tstate' = [tstate EXCEPT ![t] = "recognize"]
                  /\ UNCHANGED <<tframe, doneAfterStop, crashed>>
             ELSE FrameDone(t)
       \/ \* to_ndarray, the filter design or the arithmetic raises
          /\ FrameRaises(t, "transform")
          /\ UNCHANGED <<volume_queue, meterLog>>
    /\ UNCHANGED <<variant, playing, captureVars, processing_thread, nthreads,
                   stop_event, transcription_queue, recogLog, transcriptVars,
                   uiVars, histVars, otherVars>>

\* What the worker puts on transcription_queue for a recognizer result.
\* final = AcceptWaveform returned True (Result), else PartialResult.
Emit(q, final, text) ==
    IF Strip(text) = <<>> THEN q
    ELSE IF final THEN Put(q, text)
    ELSE Put(q, TagPartial(text))

\* self.recognizer.AcceptWaveform(...) and the result put on the queue.
Recognize(t) ==
    /\ tstate[t] = "recognize"
    /\ recogLog' = Append(recogLog, tframe[t])
    /\ \/ \E final \in BOOLEAN, text \in texts :
            /\ transcription_queue' = Emit(transcription_queue, final, text)
            /\ FrameDone(t)
       \/ \* the recognizer call raises
          /\ FrameRaises(t, "recognizer")
          /\ UNCHANGED transcription_queue
    /\ UNCHANGED <<variant, playing, captureVars, processing_thread, nthreads,
                   stop_event, volume_queue, meterLog, transcriptVars, uiVars,
                   histVars, otherVars>>

\* ----------------------------------------------------------- script run
\* A script run begins (any widget interaction, or a state change of the
\* webrtc component, re-runs the script).  A run that raised has ended.
UiBegin ==
    /\ uiPc = "idle"
    /\ uiPc' = FirstPhase(variant)
    /\ branch' = ""
    /\ uiError' = FALSE
    /\ UNCHANGED <<variant, playing, captureVars, threadVars, workerOut,
                   transcriptVars, histVars, otherVars>>

\* Mutant: the append without the pop(0).
RecordVolumeNoEvict(h, x, cap) == Append(h, x)

\* volume_history.append(x); if len(volume_history) > cap: pop(0)
RecordVolume(h, x, cap) ==
    LET h2 == Append(h, x) IN IF Len(h2) > cap THEN Tail(h2) ELSE h2

\* One iteration of `while not volume_queue.empty(): ...get()`.
DrainOne ==
    /\ volume_queue # <<>>
    /\ volume_history' = RecordVolume(volume_history, Get(volume_queue).item,
                                      VolumeHistoryMax)
    /\ recorded' = Append(recorded, Get(volume_queue).item)
    /\ volume_queue' = Get(volume_queue).rest

VolumeDrainIter ==
    /\ uiPc = "volume"
    /\ DrainOne
    /\ UNCHANGED <<variant, playing, captureVars, threadVars,
                   transcription_queue, meterLog, recogLog, transcriptVars,
                   uiVars, level_rms, texts, otherVars>>

VolumeDrainEnd ==
    /\ uiPc = "volume"
    /\ volume_queue = <<>>
    /\ uiPc' = AfterVolume(variant)
    /\ UNCHANGED <<variant, playing, captureVars, threadVars, workerOut,
                   transcriptVars, uiError, branch, histVars, otherVars>>

\* Mutant: a start path that does not look at the thread it already has.
StartAlways == TRUE

\* The condition under which the playing branch constructs a thread.
StartCondition ==
    IF variant = "device_select"
    THEN processing_thread = None
    ELSE processing_thread = None \/ ~IsAlive

\* Mutant: a stop path that does not test processing_thread for None.
StopAlways == ~playing

\* The condition under which the stop branch is taken.
StopCondition == ~playing /\ processing_thread # None

\* Mutant: a constructor that accepts None for the model.
ConstructorAcceptsNone == FALSE

\* AudioProcessingThread.__init__ raises: vosk.KaldiRecognizer(None, 16000),
\* load_vosk_model() having returned None.
ConstructorRaises == HasRecognizer(variant) /\ ~model_available

\* playing: AudioProcessingThread(...) is constructed and started.
LifecycleStart ==
    /\ uiPc = "lifecycle"
    /\ playing
    /\ StartCondition
    /\ ~ConstructorRaises
    /\ nthreads < MaxThreads
    /\ LET t == nthreads + 1 IN
        /\ nthreads' = t
        /\ processing_thread' = t
        /\ tstate' = [tstate EXCEPT ![t] = "check"]
    /\ uiPc' = AfterLifecycle(variant)
    /\ branch' = "start"
    /\ UNCHANGED <<variant, playing, captureVars, stop_event, tframe,
                   doneAfterStop, crashed, workerOut, transcriptVars, uiError,
                   histVars, otherVars>>

\* playing, and the constructor raises: load_vosk_model() has shown its
\* st.error, the exception ends the script run before processing_thread is
\* assigned, and no thread was started.
LifecycleStartFails ==
    /\ uiPc = "lifecycle"
    /\ playing
    /\ StartCondition
    /\ ConstructorRaises
    /\ reports < MaxReports
    /\ reports' = reports + 1
    /\ uiError' = TRUE
    /\ uiPc' = "idle"
    /\ branch' = "start failed"
    /\ UNCHANGED <<variant, playing, captureVars, threadVars, workerOut,
                   transcriptVars, histVars, paramVars, nruns, backupVars,
                   chatVars, signalVars, model_available, callbackVars>>

\* playing, and the thread is there: nothing is started.
LifecycleKeep ==
    /\ uiPc = "lifecycle"
    /\ playing
    /\ ~StartCondition
    /\ uiPc' = AfterLifecycle(variant)
    /\ branch' = "keep"
    /\ UNCHANGED <<variant, playing, captureVars, threadVars, workerOut,
                   transcriptVars, uiError, histVars, otherVars>>

\* not playing: processing_thread.stop(), then join().  Calling stop() on
\* None is an AttributeError that ends the script run.
LifecycleStop ==
    /\ uiPc = "lifecycle"
    /\ StopCondition
    /\ IF processing_thread = None
       THEN /\ uiError' = TRUE
            /\ uiPc' = "idle"
            /\ UNCHANGED stop_event
       ELSE /\ stop_event' = [stop_event EXCEPT ![processing_thread] = TRUE]
            /\ uiPc' = "join"
            /\ UNCHANGED uiError
    /\ branch' = "stop"
    /\ UNCHANGED <<variant, playing, captureVars, processing_thread, nthreads,
                   tstate, tframe, doneAfterStop, crashed, workerOut,
                   transcriptVars, histVars, otherVars>>

\* not playing and no thread: the stop path has nothing to do.
LifecycleIdle ==
    /\ uiPc = "lifecycle"
    /\ ~playing
    /\ ~StopCondition
    /\ uiPc' = AfterLifecycle(variant)
    /\ branch' = "idle"
    /\ UNCHANGED <<variant, playing, captureVars, threadVars, workerOut,
                   transcriptVars, uiError, histVars, otherVars>>

\* processing_thread.join() returns once run() has ended; then
\* processing_thread = None.
Join ==
    /\ uiPc = "join"
    /\ ~Alive(processing_thread)
    /\ processing_thread' = None
    /\ uiPc' = AfterLifecycle(variant)
    /\ UNCHANGED <<variant, playing, captureVars, nthreads, tstate,
                   stop_event, tframe, doneAfterStop, crashed, workerOut,
                   transcriptVars, uiError, branch, histVars, otherVars>>

\* Mutant: a Final that is appended and leaves the partial on display.
ApplyFinalKeepPartial(text) ==
    /\ history' = Append(history, text)
    /\ current_transcription' = current_transcription

\* Mutant: a Final that is put in front of the history.
ApplyFinalPrepend(text) ==
    /\ history' = <<text>> \o history
    /\ current_transcription' = <<>>

\* A Final message applied: appended to the history, the partial cleared.
ApplyFinal(text) ==
    /\ history' = Append(history, text)
    /\ current_transcription' = <<>>

\* A message tagged "partial:" applied: it replaces the current partial.
ApplyPartial(text) ==
    /\ current_transcription' = RemovePartialTag(text)
    /\ history' = history

\* One message of transcription_queue applied to the session state.
ApplyMessage(text) ==
    IF StartsWithPartial(text)
    THEN ApplyPartial(text) /\ applied' = Append(applied, "Partial")
    ELSE ApplyFinal(text) /\ applied' = Append(applied, "Final")

\* One iteration of `while not transcription_queue.empty(): ...get()`.
TranscribeIter ==
    /\ uiPc = "transcribe"
    /\ transcription_queue # <<>>
    /\ ApplyMessage(Get(transcription_queue).item)
    /\ transcription_queue' = Get(transcription_queue).rest
    /\ UNCHANGED <<variant, playing, captureVars, threadVars, volume_queue,
                   meterLog, recogLog, uiVars, histVars, otherVars>>

TranscribeEnd ==
    /\ uiPc = "transcribe"
    /\ transcription_queue = <<>>
    /\ uiPc' = "idle"
    /\ UNCHANGED <<variant, playing, captureVars, threadVars, workerOut,
                   transcriptVars, uiError, branch, histVars, otherVars>>

\* ------------------------------------------------- processing parameters
\* hearing_supportWeb.py: the script assigns the four slider values to the
\* fields of the one AudioParams object, one assignment after the other, and
\* run() reads the four fields, one read after the other, for every frame.
\* The order of the four assignments and of the four reads.
ParamOrder == <<"gain_factor", "low_freq_boost", "high_freq_boost",
                "target_rms">>

NumParams == Len(ParamOrder)

\* AudioParams.__init__: the defaults.
DefaultParams ==
    [gain_factor |-> 3, low_freq_boost |-> 0, high_freq_boost |-> 0,
     target_rms |-> 5000]

\* The values the sliders return: the default of each and one other value.
SliderSets ==
    [gain_factor : {3, 6}, low_freq_boost : {0, 1}, high_freq_boost : {0, 1},
     target_rms : {5000, 10000}]

\* The session state after `st.session_state.audio_params = AudioParams()`.
InitParamAccess ==
    /\ slider = DefaultParams
    /\ writePc = NumParams
    /\ local_params = DefaultParams
    /\ readPc = 0
    /\ writtenSets = {DefaultParams}
    /\ nruns = 0

InitParams ==
    /\ audio_params = DefaultParams
    /\ InitParamAccess

\* A script run begins: the sliders return the values of the widget state
\* the run was started with.
ParamRunBegin ==
    /\ writePc = NumParams
    /\ nruns < MaxRuns
    /\ nruns' = nruns + 1
    /\ \E s \in SliderSets :
          /\ slider' = s
          /\ writtenSets' = writtenSets \cup {s}
    /\ writePc' = 0
    /\ UNCHANGED <<audio_params, local_params, readPc>>

\* st.session_state.audio_params.<field> = st.slider(...): the next of the
\* four assignments.
ParamWrite ==
    /\ writePc < NumParams
    /\ LET f == ParamOrder[writePc + 1] IN
          audio_params' = [audio_params EXCEPT ![f] = slider[f]]
    /\ writePc' = writePc + 1
    /\ UNCHANGED <<slider, local_params, readPc, writtenSets, nruns>>

\* <field> = self.params.<field>: the next of the four reads of run().
ParamRead ==
    /\ readPc < NumParams
    /\ LET f == ParamOrder[readPc + 1] IN
          local_params' = [local_params EXCEPT ![f] = audio_params[f]]
    /\ readPc' = readPc + 1
    /\ UNCHANGED <<audio_params, slider, writePc, writtenSets, nruns>>

\* The frame is processed with the four locals; run() goes on to the next
\* frame.
ParamApply ==
    /\ readPc = NumParams
    /\ readPc' = 0
    /\ UNCHANGED <<audio_params, slider, writePc, local_params, writtenSets,
                   nruns>>

NoFrame == [samples |-> <<>>, rate |-> 0, channels |-> 0]

\* The state, after construction, of the parts the pipeline does not touch.
InitExtras ==
    /\ recognizer = 0
    /\ stop_flag = FALSE
    /\ thread_started = FALSE
    /\ wrecog = [t \in Threads |-> 0]
    /\ final_texts = <<>>
    /\ partial_text = <<>>
    /\ is_recognizing = FALSE
    /\ lock = "free"
    /\ recvPc = "idle"

\* No frame is followed.
InitSignalIdle ==
    /\ frame = NoFrame
    /\ returned = NoFrame
    /\ processed = <<>>
    /\ rms_after = 0
    /\ fed = [rate |-> 0, channels |-> 0]
    /\ sigPc = "idle"

InitOther ==
    /\ InitParams
    /\ InitExtras
    /\ InitSignalIdle
    /\ model_available = TRUE
    /\ reports = 0

\* ------------------------------------------------------- the specification
\* The session state after the first `if ... not in st.session_state` block.
InitPipeline ==
    /\ audio_queue = <<>>
    /\ nframes = 0
    /\ sinkLog = <<>>
    /\ tstate = [t \in Threads |-> "unborn"]
    /\ stop_event = [t \in Threads |-> FALSE]
    /\ tframe = [t \in Threads |-> 0]
    /\ volume_queue = <<>>
    /\ transcription_queue = <<>>
    /\ volume_history = <<>>
    /\ history = <<>>
    /\ current_transcription = <<>>
    /\ uiPc = "idle"
    /\ uiError = FALSE
    /\ meterLog = <<>>
    /\ recogLog = <<>>
    /\ doneAfterStop = [t \in Threads |-> 0]
    /\ crashed = [t \in Threads |-> ""]
    /\ applied = <<>>
    /\ branch = ""
    /\ recorded = <<>>
    /\ level_rms = 0

InitCommon ==
    /\ InitPipeline
    /\ InitOther

Init ==
    /\ variant \in PipelineVariants
    /\ texts = PipelineTexts
    /\ playing = FALSE
    /\ processing_thread = None
    /\ nthreads = 0
    /\ InitCommon

Worker ==
    \E t \in Threads :
        \/ LoopCheck(t)
        \/ GetFrame(t)
        \/ GetTimeout(t)
        \/ Transform(t)
        \/ Recognize(t)

Next ==
    \/ Recv
    \/ TogglePlaying
    \/ Worker
    \/ UiBegin
    \/ VolumeDrainIter
    \/ VolumeDrainEnd
    \/ LifecycleStart
    \/ LifecycleKeep
    \/ LifecycleStop
    \/ LifecycleIdle
    \/ Join
    \/ TranscribeIter
    \/ TranscribeEnd

Spec == Init /\ [][Next]_vars

\* hearing_supportWeb_GeminiFinal.py once START was pressed, the stream
\* playing from then on and the recognizer returning any text.
InitTranscript ==
    /\ variant = "GeminiFinal"
    /\ texts = TranscriptTexts
    /\ playing = TRUE
    /\ processing_thread = None
    /\ nthreads = 0
    /\ InitCommon

NextTranscript ==
    \/ Recv
    \/ Worker
    \/ UiBegin
    \/ VolumeDrainIter
    \/ VolumeDrainEnd
    \/ LifecycleStart
    \/ LifecycleKeep
    \/ TranscribeIter
    \/ TranscribeEnd

SpecTranscript == InitTranscript /\ [][NextTranscript]_vars

\* ------------------------------------------------------ the volume history
\* volume_history[-n:]
KeepLast(h, n) == IF Len(h) > n THEN SubSeq(h, Len(h) - n + 1, Len(h)) ELSE h

\* The bound each variant puts on st.session_state.volume_history.
HistoryCap(v) ==
    CASE v = "Web" -> VolumeHistoryMax
      [] v = "ChatGPT" -> ChatGPTHistoryMax
      [] v = "Copilot" -> CopilotHistoryMax

\* Every sample is tagged with its number, nframes + 1, so that the order
\* and the eviction of samples show in the buffer's contents.
\* hearing_supportWeb.py, run(): self.volume_queue.put(rms_after)
HistProduce ==
    /\ variant = "Web"
    /\ nframes < MaxSamples
    /\ Len(volume_queue) < MaxPending
    /\ volume_queue' = Put(volume_queue, nframes + 1)
    /\ nframes' = nframes + 1
    /\ UNCHANGED <<variant, playing, audio_queue, sinkLog, threadVars,
                   transcription_queue, meterLog, recogLog, transcriptVars,
                   uiVars, histVars, otherVars>>

\* hearing_supportWeb.py, the script: one iteration of the drain loop.
HistDrain ==
    /\ variant = "Web"
    /\ DrainOne
    /\ UNCHANGED <<variant, playing, captureVars, threadVars,
                   transcription_queue, meterLog, recogLog, transcriptVars,
                   uiVars, level_rms, texts, otherVars>>

\* hearing_supportWeb_ChatGPT.py: recv_audio has stored a level in
\* ap.level_rms and the script appends it, then keeps the last 200.
HistChatGPTPass ==
    /\ variant = "ChatGPT"
    /\ nframes < MaxSamples
    /\ level_rms' = nframes + 1
    /\ nframes' = nframes + 1
    /\ volume_history' =
          LET h2 == Append(volume_history, level_rms') IN
          IF Len(h2) > ChatGPTHistoryMax
          THEN KeepLast(h2, ChatGPTHistoryMax) ELSE h2
    /\ recorded' = Append(recorded, level_rms')
    /\ UNCHANGED <<variant, playing, audio_queue, sinkLog, threadVars,
                   workerOut, transcriptVars, uiVars, texts, otherVars>>

\* hearing_supportWeb_Copilot.py, recv: append the RMS, pop(0) beyond 50.
HistCopilotRecv ==
    /\ variant = "Copilot"
    /\ nframes < MaxSamples
    /\ nframes' = nframes + 1
    /\ volume_history' =
          RecordVolume(volume_history, nframes + 1, CopilotHistoryMax)
    /\ recorded' = Append(recorded, nframes + 1)
    /\ UNCHANGED <<variant, playing, audio_queue, sinkLog, threadVars,
                   workerOut, transcriptVars, uiVars, level_rms, texts, otherVars>>

\* hearing_supportWeb_Gemini.py, recv: volume_history_queue.append(rms)
\* (the processor's list, held here in volume_queue).
HistGeminiRecv ==
    /\ variant = "Gemini"
    /\ nframes < MaxSamples
    /\ Len(volume_queue) < MaxPending
    /\ volume_queue' = Append(volume_queue, nframes + 1)
    /\ nframes' = nframes + 1
    /\ UNCHANGED <<variant, playing, audio_queue, sinkLog, threadVars,
                   transcription_queue, meterLog, recogLog, transcriptVars,
                   uiVars, histVars, otherVars>>

\* hearing_supportWeb_Gemini.py, the script:
\* volume_history.extend(volume_history_queue); volume_history_queue.clear()
HistGeminiPass ==
    /\ variant = "Gemini"
    /\ volume_history' = volume_history \o volume_queue
    /\ recorded' = recorded \o volume_queue
    /\ volume_queue' = <<>>
    /\ UNCHANGED <<variant, playing, captureVars, threadVars,
                   transcription_queue, meterLog, recogLog, transcriptVars,
                   uiVars, level_rms, texts, otherVars>>

\* hearing_supportWeb_Gemini.py: st.line_chart(volume_history[-50:])
GeminiDisplayed == KeepLast(volume_history, GeminiDisplayMax)

InitHistory ==
    /\ variant \in HistoryVariants
    /\ texts = PipelineTexts
    /\ playing = TRUE
    /\ processing_thread = None
    /\ nthreads = 0
    /\ InitCommon

NextHistory ==
    \/ HistProduce
    \/ HistDrain
    \/ HistChatGPTPass
    \/ HistCopilotRecv
    \/ HistGeminiRecv
    \/ HistGeminiPass

SpecHistory == InitHistory /\ [][NextHistory]_vars

\* Everything but the processing parameters.
pipelineVars ==
    <<variant, playing, captureVars, threadVars, workerOut, transcriptVars,
      uiVars, histVars>>

\* hearing_supportWeb.py, the AudioParams object alone: the assignments of
\* the script runs and the reads run() makes for each frame it holds; the
\* variables of the pipeline stay as they are.
InitParamSpec ==
    /\ variant = "Web"
    /\ texts = PipelineTexts
    /\ playing = TRUE
    /\ processing_thread = None
    /\ nthreads = 0
    /\ InitCommon

NextParams ==
    \/ ParamRunBegin /\ UNCHANGED <<pipelineVars, backupVars, chatVars, signalVars,
                                  startVars, callbackVars>>
    \/ ParamWrite /\ UNCHANGED <<pipelineVars, backupVars, chatVars, signalVars,
                                  startVars, callbackVars>>
    \/ ParamRead /\ UNCHANGED <<pipelineVars, backupVars, chatVars, signalVars,
                                  startVars, callbackVars>>
    \/ ParamApply /\ UNCHANGED <<pipelineVars, backupVars, chatVars, signalVars,
                                  startVars, callbackVars>>

SpecParams == InitParamSpec /\ [][NextParams]_vars

\* ------------------------------------------------ backUP/hearing_support1
\* backUP/hearing_support1.py.  The script's module-level statements run on
\* every script run, in a namespace of that run: each run constructs a new
\* KaldiRecognizer (line 14), and the recognize_worker a run starts names
\* the recognizer of that run.  stop_flag and thread_started live in
\* st.session_state and are shared by all runs and workers.
\* Mutant: one recognizer made once and named by every run.
SameRecognizer(r) == r

\* recognizer = KaldiRecognizer(model, 48000): the instance a run creates,
\* r being the one the run before created.
NewRecognizer(r) == r + 1

\* The variables recognize_worker and the two buttons leave alone.
backupFrame ==
    <<variant, playing, audio_queue, sinkLog, processing_thread, stop_event,
      tframe, doneAfterStop, crashed, workerOut, current_transcription,
      applied, uiVars, histVars, paramVars, nruns, chatVars, signalVars,
      startVars, callbackVars>>

\* The start button: stop_flag.clear(), and the worker is started unless
\* thread_started says one was.
StartButton ==
    /\ recognizer < MaxPresses
    /\ recognizer' = NewRecognizer(recognizer)
    /\ stop_flag' = FALSE
    /\ thread_started' = TRUE
    /\ IF ~thread_started
       THEN /\ nthreads < MaxThreads
            /\ LET t == nthreads + 1 IN
                /\ nthreads' = t
                /\ tstate' = [tstate EXCEPT ![t] = "check"]
                /\ wrecog' = [wrecog EXCEPT ![t] = recognizer']
       ELSE UNCHANGED <<nthreads, tstate, wrecog>>
    /\ UNCHANGED <<nframes, history, backupFrame>>

\* The stop button: stop_flag.set(); thread_started = False.
StopButton ==
    /\ recognizer < MaxPresses
    /\ recognizer' = NewRecognizer(recognizer)
    /\ stop_flag' = TRUE
    /\ thread_started' = FALSE
    /\ UNCHANGED <<nthreads, tstate, wrecog, nframes, history, backupFrame>>

\* `while not st.session_state.stop_flag.is_set()`
WorkerLoopCheck(t) ==
    /\ tstate[t] = "check"
    /\ tstate' = [tstate EXCEPT ![t] = IF stop_flag THEN "dead" ELSE "get"]
    /\ UNCHANGED <<nthreads, wrecog, recognizer, stop_flag, thread_started,
                   nframes, history, backupFrame>>

\* data = audio_queue.get(timeout=1): a buffer of the input stream, or
\* queue.Empty and `continue`.
WorkerGet(t) ==
    /\ tstate[t] = "get"
    /\ \/ /\ nframes < MaxFrames
          /\ nframes' = nframes + 1
          /\ tstate' = [tstate EXCEPT ![t] = "accept"]
       \/ /\ tstate' = [tstate EXCEPT ![t] = "check"]
          /\ UNCHANGED nframes
    /\ UNCHANGED <<nthreads, wrecog, recognizer, stop_flag, thread_started,
                   history, backupFrame>>

\* recognizer.AcceptWaveform(data.tobytes()); on True the text of Result()
\* is appended to the history as it is.  An exception other than queue.Empty
\* ends the worker.
WorkerAccept(t) ==
    /\ tstate[t] = "accept"
    /\ \/ \E text \in texts :
            /\ history' = Append(history, text)
            /\ tstate' = [tstate EXCEPT ![t] = "check"]
       \/ /\ tstate' = [tstate EXCEPT ![t] = "check"]
          /\ UNCHANGED history
       \/ /\ tstate' = [tstate EXCEPT ![t] = "dead"]
          /\ UNCHANGED history
    /\ UNCHANGED <<nthreads, wrecog, recognizer, stop_flag, thread_started,
                   nframes, backupFrame>>

\* The texts Result()["text"] holds: Vosk returns "" for an utterance in
\* which it recognized no word.
BackupTexts == { <<>>, <<"a">> }

InitBackup ==
    /\ variant = "backUP"
    /\ texts = BackupTexts
    /\ playing = FALSE
    /\ processing_thread = None
    /\ nthreads = 0
    /\ InitCommon

NextBackup ==
    \/ StartButton
    \/ StopButton
    \/ \E t \in Threads :
          \/ WorkerLoopCheck(t)
          \/ WorkerGet(t)
          \/ WorkerAccept(t)

SpecBackup == InitBackup /\ [][NextBackup]_vars

\* ------------------------------------- hearing_supportWeb_ChatGPT transcript
\* hearing_supportWeb_ChatGPT.py: recv_audio runs the recognizer in the
\* callback and keeps its results in the processor (final_texts,
\* partial_text); the script copies them into st.session_state.  (The gain
\* and the frame recv_audio returns are followed in SpecSignal.)
\* The variables this variant leaves alone.
chatFrame ==
    <<variant, playing, audio_queue, threadVars, volume_queue,
      transcription_queue, meterLog, applied, uiError, texts, recorded,
      paramVars, backupVars, signalVars, startVars, callbackVars>>

\* recv_audio: the level, then the recognition, whose exceptions are caught
\* and logged; the processed frame is returned.
ChatGPTRecvAudio ==
    /\ playing
    /\ nframes < MaxFrames
    /\ nframes' = nframes + 1
    /\ sinkLog' = Append(sinkLog, nframes')
    /\ level_rms' = nframes'
    /\ \/ \* the resampler raises: logged, the rest of the block skipped
          UNCHANGED <<final_texts, partial_text, recogLog>>
       \/ /\ is_recognizing
          /\ recogLog' = Append(recogLog, nframes')
          /\ \/ \E text \in texts :
                   \* AcceptWaveform is True:
                   \* (result.get("text") or "").strip()
                   IF Strip(text) # <<>>
                   THEN /\ final_texts' = Append(final_texts, Strip(text))
                        /\ partial_text' = <<>>
                   ELSE UNCHANGED <<final_texts, partial_text>>
             \/ \E text \in texts :
                   \* AcceptWaveform is False: the stripped partial
                   /\ partial_text' = Strip(text)
                   /\ UNCHANGED final_texts
             \/ \* the recognizer raises: logged
                UNCHANGED <<final_texts, partial_text>>
       \/ /\ ~is_recognizing
          /\ partial_text' = <<>>
          /\ UNCHANGED <<final_texts, recogLog>>
    /\ UNCHANGED <<history, current_transcription, volume_history, uiPc,
                   branch, is_recognizing, nruns, chatFrame>>

\* A script run begins; at most one of the three buttons was pressed.
ChatGPTRun ==
    /\ uiPc = "idle"
    /\ nruns < MaxPasses
    /\ nruns' = nruns + 1
    /\ \E button \in {"none", "start", "stop", "clear"} :
          /\ branch' = button
          /\ is_recognizing' =
                CASE button = "start" -> TRUE
                  [] button = "stop" -> FALSE
                  [] OTHER -> is_recognizing
          \* st.session_state.history.clear()
          /\ history' = IF button = "clear" THEN <<>> ELSE history
    /\ uiPc' = IF playing THEN "pass" ELSE "idle"
    /\ UNCHANGED <<recogLog, nframes, sinkLog, level_rms, final_texts,
                   partial_text, current_transcription, volume_history,
                   chatFrame>>

\* The level is appended to the volume history (the last 200 kept), the
\* partial is copied, and final_texts is tested.
ChatGPTPass ==
    /\ uiPc = "pass"
    /\ volume_history' =
          LET h2 == Append(volume_history, level_rms) IN
          IF Len(h2) > ChatGPTHistoryMax
          THEN KeepLast(h2, ChatGPTHistoryMax) ELSE h2
    /\ current_transcription' = partial_text
    /\ uiPc' = IF final_texts # <<>> THEN "extend" ELSE "idle"
    /\ UNCHANGED <<recogLog, nframes, sinkLog, level_rms, final_texts,
                   partial_text, history, branch, is_recognizing, nruns,
                   chatFrame>>

\* st.session_state.history.extend(ap.final_texts)
ChatGPTExtend ==
    /\ uiPc = "extend"
    /\ history' = history \o final_texts
    /\ uiPc' = "reset"
    /\ UNCHANGED <<recogLog, nframes, sinkLog, level_rms, final_texts,
                   partial_text, current_transcription, volume_history,
                   branch, is_recognizing, nruns, chatFrame>>

\* ap.final_texts = []
ChatGPTReset ==
    /\ uiPc = "reset"
    /\ final_texts' = <<>>
    /\ uiPc' = "idle"
    /\ UNCHANGED <<recogLog, nframes, sinkLog, level_rms, partial_text,
                   history, current_transcription, volume_history, branch,
                   is_recognizing, nruns, chatFrame>>

NextChatGPT ==
    \/ ChatGPTRecvAudio
    \/ ChatGPTRun
    \/ ChatGPTPass
    \/ ChatGPTExtend
    \/ ChatGPTReset

\* The Final history of hearing_supportWeb_GeminiFinal.py and of
\* hearing_supportWeb_ChatGPT.py, the stream playing.
InitFinals ==
    /\ variant \in {"GeminiFinal", "ChatGPT"}
    /\ texts = TranscriptTexts
    /\ playing = TRUE
    /\ processing_thread = None
    /\ nthreads = 0
    /\ InitCommon

NextFinals ==
    \/ variant = "GeminiFinal" /\ NextTranscript
    \/ variant = "ChatGPT" /\ NextChatGPT

SpecFinals == InitFinals /\ [][NextFinals]_vars

\* ------------------------------------------------------------ the signal
\* What one frame becomes: the samples run() computes from it, the level it
\* publishes, the PCM it gives the recognizer and the frame the capture
\* callback returns to the output sink.  Samples are integers in units of
\* one int16 step; the float64 arithmetic of numpy is followed in integers
\* rounded toward zero, which differs from it by less than one unit.
Int16Min == -(2^15)
Int16Max == 2^15 - 1

Abs(x) == IF x < 0 THEN -x ELSE x

\* a / b rounded toward zero, b positive.
TruncDiv(a, b) == IF a >= 0 THEN a \div b ELSE -((-a) \div b)

\* np.clip(x, lo, hi)
Clip(x, lo, hi) == IF x < lo THEN lo ELSE IF x > hi THEN hi ELSE x

\* The value modulo 2^16, read as a signed 16-bit integer.
Wrap16(v) == ((v - Int16Min) % 2^16) + Int16Min

\* ndarray.astype(np.int16) of a float64 value.  Out of the int16 range the
\* conversion is undefined in C: builds that convert through a wider
\* integer keep the low 16 bits, builds with a saturating conversion pin
\* the value at the boundary.
Builds == {"truncating", "saturating"}

CastInt16(v, build) ==
    IF Int16Min <= v /\ v <= Int16Max THEN v
    ELSE IF build = "truncating" THEN Wrap16(v)
    ELSE Clip(v, Int16Min, Int16Max)

\* The floor of the square root of n, found between lo and hi.
RECURSIVE SqrtBetween(_, _, _)
SqrtBetween(n, lo, hi) ==
    IF lo >= hi THEN lo
    ELSE LET mid == (lo + hi + 1) \div 2 IN
         IF mid * mid <= n THEN SqrtBetween(n, mid, hi)
         ELSE SqrtBetween(n, lo, mid - 1)

Isqrt(n) == SqrtBetween(n, 0, 2^15)

RECURSIVE SumSeq(_)
SumSeq(s) == IF s = <<>> THEN 0 ELSE Head(s) + SumSeq(Tail(s))

\* np.mean(np.square(x)), the floor of it; the squares are divided before
\* they are added so that the sum stays a 32-bit number.
MeanSquare(s) ==
    LET n == Len(s) IN
    SumSeq([i \in 1..n |-> (s[i] * s[i]) \div n])
        + SumSeq([i \in 1..n |-> (s[i] * s[i]) % n]) \div n

\* np.sqrt(np.mean(np.square(x)))
Rms(s) == Isqrt(MeanSquare(s))

\* Mutant: a frame that is not brought to the target level.
AgcScaleOff(x, target, rms) == x

\* Mutant: rms without the epsilon, zero for a silent frame.
DivisorWithoutEpsilon(rms) == rms > 0

\* rms = np.sqrt(np.mean(np.square(x))) + 1e-6: whether the divisor of
\* agc_gain = target_rms / rms is above zero.
DivisorPositive(rms) == TRUE

\* What numpy leaves in a sample for 0 * (target_rms / 0.0): nan, written
\* here as a number outside the range of the samples.
NotANumber == Int16Min - 1

\* x * (target_rms / rms): one sample after the automatic gain control.
\* For a silent frame the square root is 0 and the divisor is the epsilon:
\* the gain is finite and 0 times it is 0.  Elsewhere the epsilon changes
\* the quotient by less than one unit.
AgcScale(x, target, rms) ==
    IF rms = 0
    THEN IF DivisorPositive(rms) THEN 0 ELSE NotANumber
    ELSE TruncDiv(x * target, rms)

\* The gain run() applies: the slider value, or GAIN_FACTOR.
GainOf(v, p) == IF v = "device_select" THEN GAIN_FACTOR ELSE p.gain_factor

\* The samples after the gain and before any clipping or conversion
\* (the equalizer boosts at 0).
Amplified(v, s, p) ==
    CASE v = "Web" ->
           [i \in 1..Len(s) |->
              AgcScale(s[i], p.target_rms, Rms(s)) * p.gain_factor]
      [] OTHER -> [i \in 1..Len(s) |-> s[i] * GainOf(v, p)]

\* The samples run() (recv_audio in hearing_supportWeb_ChatGPT.py) ends
\* with.
Processed(v, s, p, build) ==
    LET a == Amplified(v, s, p) IN
    CASE v = "Web" ->
           [i \in 1..Len(s) |-> Clip(a[i], -ClipMax, ClipMax)]
      [] v = "ChatGPT" ->
           \* f32 = x / 32768; clip(f32 * gain, -1, 1); (out * 32767) as int16
           [i \in 1..Len(s) |->
              TruncDiv(Clip(a[i], -(2^15), 2^15) * ClipMax, 2^15)]
      [] OTHER -> [i \in 1..Len(s) |-> CastInt16(a[i], build)]

\* The variants with a recognizer in the frame's path, all made with
\* KaldiRecognizer(model, 16000).
SignalRecognizes(v) == v \in {"GeminiFinal", "device_select", "ChatGPT"}

\* The PCM given to AcceptWaveform: the 16 kHz mono output of the resampler
\* in hearing_supportWeb_ChatGPT.py, the frame's own samples elsewhere.
FedFormat(v, f) ==
    IF v = "ChatGPT" THEN [rate |-> RecognizerRate, channels |-> 1]
    ELSE [rate |-> f.rate, channels |-> f.channels]

\* The frame the capture callback returns: the frame it was given, but in
\* hearing_supportWeb_ChatGPT.py a frame made of the processed samples with
\* the layout and the sample rate of the input.
Returned(v, f, out) ==
    IF v = "ChatGPT" THEN [f EXCEPT !.samples = out] ELSE f

\* The order of the steps: recv returns before the thread sees the frame;
\* recv_audio returns last.
SignalFirst(v) == IF v = "ChatGPT" THEN "transform" ELSE "recv"

signalFrame ==
    <<pipelineVars, paramVars, nruns, backupVars, chatVars, startVars,
      callbackVars>>

SignalRecv ==
    /\ sigPc = "recv"
    /\ returned' = Returned(variant, frame, processed)
    /\ sigPc' = IF variant = "ChatGPT" THEN "done" ELSE "transform"
    /\ UNCHANGED <<frame, processed, rms_after, fed, signalFrame>>

\* The variants whose run() writes its working array in place:
\* `audio_data_float *= agc_gain` (and the `+=` of the boosts).
WritesInPlace(v) == v = "Web"

\* Mutant: the working array is the sample buffer of the frame itself.
InPlaceTargetFrame == "frame"

\* The array those statements write: the float64 array that
\* frame.to_ndarray().astype(np.float64) made, a copy of the samples.
InPlaceTarget == "copy"

\* The frame object after run() has worked on its samples.
FrameAfter(v, f, p) ==
    IF WritesInPlace(v) /\ InPlaceTarget = "frame"
    THEN [f EXCEPT !.samples =
            [i \in 1..Len(f.samples) |->
               AgcScale(f.samples[i], p.target_rms, Rms(f.samples))]]
    ELSE f

SignalTransform ==
    /\ sigPc = "transform"
    /\ \E build \in Builds :
          processed' = Processed(variant, frame.samples, audio_params, build)
    /\ rms_after' = IF variant = "ChatGPT" THEN Rms(frame.samples)
                    ELSE Rms(processed')
    /\ frame' = FrameAfter(variant, frame, audio_params)
    /\ sigPc' = IF SignalRecognizes(variant) THEN "feed"
                ELSE "done"
    /\ UNCHANGED <<returned, fed, signalFrame>>

SignalFeed ==
    /\ sigPc = "feed"
    /\ fed' = FedFormat(variant, frame)
    /\ sigPc' = IF variant = "ChatGPT" THEN "recv" ELSE "done"
    /\ UNCHANGED <<frame, returned, processed, rms_after, signalFrame>>

\* The frames: every sequence of one to MaxFrameLen of the sample values.
SampleValues == {Int16Min, -1000, 0, 1000, 20000, Int16Max}

SignalFrames ==
    UNION { [1..n -> SampleValues] : n \in 1..MaxFrameLen }

\* The slider values: gain 1.0 and 3.0, the targets 1000, 5000, 32500 and
\* 50000.
SignalParams ==
    [gain_factor : {1, 3}, low_freq_boost : {0}, high_freq_boost : {0},
     target_rms : {1000, 5000, 32500, 50000}]

\* The sample rates a frame arrives with: the recognizer's, and 48 kHz.
FrameRates == {RecognizerRate, 48000}

SignalVariants == {"Web", "GeminiFinal", "device_select", "ChatGPT"}

InitSignal ==
    /\ variant \in SignalVariants
    /\ texts = PipelineTexts
    /\ playing = TRUE
    /\ processing_thread = None
    /\ nthreads = 0
    /\ InitPipeline
    /\ InitParamAccess
    /\ InitExtras
    /\ audio_params \in
          IF variant = "Web" THEN SignalParams
          ELSE { p \in SignalParams : p.target_rms = DefaultParams.target_rms }
    /\ frame \in
          { [samples |-> s, rate |-> r, channels |-> c] :
              s \in SignalFrames, r \in FrameRates,
              c \in {1, 2} }
    /\ returned = NoFrame
    /\ processed = <<>>
    /\ rms_after = 0
    /\ fed = [rate |-> 0, channels |-> 0]
    /\ sigPc = SignalFirst(variant)
    /\ model_available = TRUE
    /\ reports = 0

NextSignal ==
    \/ SignalRecv
    \/ SignalTransform
    \/ SignalFeed

SpecSignal == InitSignal /\ [][NextSignal]_vars

\* ------------------------------------------------------ recognizer startup
\* hearing_supportWeb_GeminiFinal.py and device_select.py with the Vosk
\* model there or not: load_vosk_model() returns the model, or reports with
\* st.error and returns None, and the constructor of the thread then raises.
InitStartup ==
    /\ variant \in {"GeminiFinal", "device_select"}
    /\ texts = PipelineTexts
    /\ playing = FALSE
    /\ processing_thread = None
    /\ nthreads = 0
    /\ InitPipeline
    /\ InitParams
    /\ InitExtras
    /\ InitSignalIdle
    /\ model_available \in BOOLEAN
    /\ reports = 0

NextStartup ==
    \/ Next
    \/ LifecycleStartFails

SpecStartup == InitStartup /\ [][NextStartup]_vars

\* --------------------------------------- recognition in the capture callback
\* hearing_supportWeb_Gemini.py and hearing_supportWeb_Copilot.py have no
\* processing thread: recv itself, called by the WebRTC worker for every
\* frame, meters the frame and runs the recognizer, while the Streamlit
\* script runs on its own thread.  Gemini keeps the results in two lists of
\* the processor, guarded by self.lock, and the script moves them into
\* st.session_state; Copilot writes st.session_state from recv, with no lock.
\* The variables the two variants leave alone.
callbackFrame ==
    <<variant, playing, audio_queue, threadVars, meterLog, uiError, branch,
      recorded, level_rms, texts, paramVars, nruns, backupVars, chatVars,
      signalVars, startVars>>

\* Gemini, __init__: st.session_state.get("vosk_model", None) -- no
\* statement of the file stores a model under that key, so the processor's
\* recognizer is None.
GeminiRecognizer == None

\* Gemini, recv: `self.recognizer and len(self.volume_history_queue) % 5 == 0`
\* (the length is read after the lock was released).
GeminiFeeds == GeminiRecognizer # None /\ Len(volume_queue) % FeedEvery = 0

\* Gemini, recv: a frame arrives, its RMS is computed.
GeminiRecvBegin ==
    /\ variant = "Gemini"
    /\ playing
    /\ recvPc = "idle"
    /\ nframes < MaxCallbackFrames
    /\ nframes' = nframes + 1
    /\ recvPc' = "acquire"
    /\ UNCHANGED <<sinkLog, volume_queue, transcription_queue, recogLog,
                   volume_history, transcriptVars, uiPc, lock, callbackFrame>>

\* with self.lock:
GeminiRecvAcquire ==
    /\ variant = "Gemini"
    /\ recvPc = "acquire"
    /\ lock = "free"
    /\ lock' = "recv"
    /\ recvPc' = "append"
    /\ UNCHANGED <<nframes, sinkLog, volume_queue, transcription_queue,
                   recogLog, volume_history, transcriptVars, uiPc,
                   callbackFrame>>

\* self.volume_history_queue.append(rms), and the lock is released.
GeminiRecvAppend ==
    /\ variant = "Gemini"
    /\ recvPc = "append"
    /\ volume_queue' = Append(volume_queue, nframes)
    /\ lock' = "free"
    /\ recvPc' = "test"
    /\ UNCHANGED <<nframes, sinkLog, transcription_queue, recogLog,
                   volume_history, transcriptVars, uiPc, callbackFrame>>

\* The test of line 84, the recognizer call when it passes (its result
\* appended under the lock), and `return frame`.
GeminiRecvTest ==
    /\ variant = "Gemini"
    /\ recvPc = "test"
    /\ IF GeminiFeeds
       THEN /\ recogLog' = Append(recogLog, nframes)
            /\ \E final \in BOOLEAN, text \in texts :
                  /\ Strip(text) # <<>> => lock = "free"
                  /\ transcription_queue' =
                        Emit(transcription_queue, final, text)
       ELSE UNCHANGED <<recogLog, transcription_queue>>
    /\ sinkLog' = Append(sinkLog, nframes)
    /\ recvPc' = "idle"
    /\ UNCHANGED <<nframes, volume_queue, volume_history, transcriptVars,
                   uiPc, lock, callbackFrame>>

\* Gemini, the script: a run reaches the sidebar, the stream playing.
GeminiUiBegin ==
    /\ variant = "Gemini"
    /\ playing
    /\ uiPc = "idle"
    /\ uiPc' = "volume"
    /\ UNCHANGED <<nframes, sinkLog, volume_queue, transcription_queue,
                   recogLog, volume_history, transcriptVars, lock, recvPc,
                   callbackFrame>>

\* with webrtc_ctx.audio_processor.lock: (the volume block and, after it,
\* the transcription block)
GeminiUiAcquire ==
    /\ variant = "Gemini"
    /\ uiPc \in {"volume", "transcribe"}
    /\ lock = "free"
    /\ lock' = "script"
    /\ uiPc' = IF uiPc = "volume" THEN "extend" ELSE "drain"
    /\ UNCHANGED <<nframes, sinkLog, volume_queue, transcription_queue,
                   recogLog, volume_history, transcriptVars, recvPc,
                   callbackFrame>>

\* st.session_state.volume_history.extend(...volume_history_queue)
GeminiUiExtend ==
    /\ variant = "Gemini"
    /\ uiPc = "extend"
    /\ volume_history' = volume_history \o volume_queue
    /\ uiPc' = "clear"
    /\ UNCHANGED <<nframes, sinkLog, volume_queue, transcription_queue,
                   recogLog, transcriptVars, lock, recvPc, callbackFrame>>

\* ...volume_history_queue.clear(), and the lock is released.
GeminiUiClear ==
    /\ variant = "Gemini"
    /\ uiPc = "clear"
    /\ volume_queue' = <<>>
    /\ lock' = "free"
    /\ uiPc' = "transcribe"
    /\ UNCHANGED <<nframes, sinkLog, transcription_queue, recogLog,
                   volume_history, transcriptVars, recvPc, callbackFrame>>

\* while ...transcription_queue: pop(0) and apply; then the lock is
\* released.
GeminiUiDrain ==
    /\ variant = "Gemini"
    /\ uiPc = "drain"
    /\ IF transcription_queue # <<>>
       THEN /\ ApplyMessage(Head(transcription_queue))
            /\ transcription_queue' = Tail(transcription_queue)
            /\ UNCHANGED <<uiPc, lock>>
       ELSE /\ uiPc' = "idle"
            /\ lock' = "free"
            /\ UNCHANGED <<transcription_queue, transcriptVars>>
    /\ UNCHANGED <<nframes, sinkLog, volume_queue, recogLog, volume_history,
                   recvPc, callbackFrame>>

\* Copilot, recv: a frame arrives, its RMS is computed.
CopilotRecvBegin ==
    /\ variant = "Copilot"
    /\ playing
    /\ recvPc = "idle"
    /\ nframes < MaxCallbackFrames
    /\ nframes' = nframes + 1
    /\ recvPc' = "volume"
    /\ UNCHANGED <<sinkLog, volume_queue, transcription_queue, recogLog,
                   volume_history, transcriptVars, uiPc, lock, callbackFrame>>

\* st.session_state.volume_history.append(rms); pop(0) beyond 50.
CopilotRecvVolume ==
    /\ variant = "Copilot"
    /\ recvPc = "volume"
    /\ volume_history' =
          RecordVolume(volume_history, nframes, CopilotHistoryMax)
    /\ recvPc' = "recognize"
    /\ UNCHANGED <<nframes, sinkLog, volume_queue, transcription_queue,
                   recogLog, transcriptVars, uiPc, lock, callbackFrame>>

\* self.recognizer.AcceptWaveform(...), the result written to
\* st.session_state, and `return frame`.
CopilotRecvRecognize ==
    /\ variant = "Copilot"
    /\ recvPc = "recognize"
    /\ recogLog' = Append(recogLog, nframes)
    /\ \E final \in BOOLEAN, text \in texts :
          IF Strip(text) = <<>>
          THEN UNCHANGED <<history, current_transcription>>
          ELSE IF final
          THEN /\ history' = Append(history, text)
               /\ current_transcription' = <<>>
          ELSE /\ current_transcription' = text
               /\ UNCHANGED history
    /\ sinkLog' = Append(sinkLog, nframes)
    /\ recvPc' = "idle"
    /\ UNCHANGED <<nframes, volume_queue, transcription_queue,
                   volume_history, applied, uiPc, lock, callbackFrame>>

\* Copilot, the script: the positions at which a run reads
\* st.session_state.volume_history (the chart), current_transcription and
\* history[-10:].
CopilotUiNext(pc) ==
    CASE pc = "idle" -> "chart"
      [] pc = "chart" -> "partial"
      [] pc = "partial" -> "history"
      [] pc = "history" -> "idle"

CopilotUiStep ==
    /\ variant = "Copilot"
    /\ uiPc' = CopilotUiNext(uiPc)
    /\ UNCHANGED <<nframes, sinkLog, volume_queue, transcription_queue,
                   recogLog, volume_history, transcriptVars, lock, recvPc,
                   callbackFrame>>

InitCallback ==
    /\ variant \in {"Gemini", "Copilot"}
    /\ texts = PipelineTexts
    /\ playing = TRUE
    /\ processing_thread = None
    /\ nthreads = 0
    /\ InitCommon

NextCallback ==
    \/ GeminiRecvBegin
    \/ GeminiRecvAcquire
    \/ GeminiRecvAppend
    \/ GeminiRecvTest
    \/ GeminiUiBegin
    \/ GeminiUiAcquire
    \/ GeminiUiExtend
    \/ GeminiUiClear
    \/ GeminiUiDrain
    \/ CopilotRecvBegin
    \/ CopilotRecvVolume
    \/ CopilotRecvRecognize
    \/ CopilotUiStep

SpecCallback == InitCallback /\ [][NextCallback]_vars

\* ------------------------------------- parameters captured at construction
\* hearing_supportWeb_GeminiFinal.py: the thread's constructor copies the
\* slider values of the run that constructs it into self.gain_factor,
\* self.low_freq_boost and self.high_freq_boost, and run() reads those
\* fields (held here in audio_params) for every frame.  A later script run
\* evaluates the sliders again and, the thread being alive, constructs
\* nothing and assigns nothing.
GeminiFinalRun ==
    /\ nruns < MaxRuns
    /\ nruns' = nruns + 1
    /\ \E s \in SliderSets :
          /\ s.target_rms = DefaultParams.target_rms
          /\ slider' = s
          /\ writtenSets' = writtenSets \cup {s}
    /\ UNCHANGED <<audio_params, writePc, local_params, readPc>>

\* The parameters of a running thread in hearing_supportWeb.py and in
\* hearing_supportWeb_GeminiFinal.py, the thread constructed by a run whose
\* sliders were at their defaults.
InitControl ==
    /\ variant \in {"Web", "GeminiFinal"}
    /\ texts = PipelineTexts
    /\ playing = TRUE
    /\ processing_thread = None
    /\ nthreads = 0
    /\ InitCommon

NextControl ==
    \/ variant = "Web" /\ NextParams
    \/ /\ variant = "GeminiFinal"
       /\ \/ GeminiFinalRun
          \/ ParamRead /\ UNCHANGED nruns
          \/ ParamApply
       /\ UNCHANGED <<pipelineVars, backupVars, chatVars, signalVars,
                      startVars, callbackVars>>

SpecControl == InitControl /\ [][NextControl]_vars

\* ------------------------------------------------------------ the equalizer
\* The two band-pass designs run() asks for when a boost is not 0.
\* Frequencies are integers in units of 0.1 Hz (hearing_supportWeb.py passes
\* the cutoffs 0.1 and 0.5); a normalized cutoff is the fraction num/den.
\* fs = 16000 in every call.
FilterRate == 10 * 16000

\* bandpass_filter(..., 20, 500, 16000)
LowBand(v) == [lowcut |-> 200, highcut |-> 5000]

\* bandpass_filter(..., 2000, 8000, 16000); in hearing_supportWeb.py
\* bandpass_filter(..., 0.1, 0.5, 16000).
HighBand(v) ==
    IF v = "Web" THEN [lowcut |-> 1, highcut |-> 5]
    ELSE [lowcut |-> 20000, highcut |-> 80000]

\* butter_bandpass: nyquist = 0.5 * fs; low = lowcut / nyquist;
\* high = highcut / nyquist.
ButterBandpass(band, fs) ==
    LET nyquist == fs \div 2 IN
    [low |-> [num |-> band.lowcut, den |-> nyquist],
     high |-> [num |-> band.highcut, den |-> nyquist]]

\* butter(order, [low, high], btype='band') designs the filter when
\* 0 < low < high < 1 and raises ValueError otherwise (the two fractions
\* have the denominator nyquist).
ButterAccepts(wn) ==
    /\ 0 < wn.low.num
    /\ wn.low.num < wn.high.num
    /\ wn.high.num < wn.high.den

\* `audio_data += low_freq_data * boost`: audio_data is the int16 array of
\* frame.to_ndarray() in hearing_supportWeb_GeminiFinal.py, and numpy
\* refuses to write the float64 product into it (UFuncTypeError); the other
\* two variants add into a float64 array.
InPlaceAddRaises(v) == v = "GeminiFinal"

\* One boost of the equalizer: nothing when the boost is 0, else the design,
\* the filter and the in-place addition.
BoostFails(v, boost, band) ==
    /\ boost # 0
    /\ \/ ~ButterAccepts(ButterBandpass(band, FilterRate))
       \/ InPlaceAddRaises(v)

\* if low_freq_boost != 0: ...
EqualizeLow ==
    /\ sigPc = "low"
    /\ sigPc' = IF BoostFails(variant, audio_params.low_freq_boost,
                              LowBand(variant))
                THEN "failed" ELSE "high"
    /\ UNCHANGED <<frame, returned, processed, rms_after, fed, signalFrame>>

\* if high_freq_boost != 0: ...
EqualizeHigh ==
    /\ sigPc = "high"
    /\ sigPc' = IF BoostFails(variant, audio_params.high_freq_boost,
                              HighBand(variant))
                THEN "failed" ELSE "done"
    /\ UNCHANGED <<frame, returned, processed, rms_after, fed, signalFrame>>

\* The variants with an equalizer.
EqualizerVariants == {"Web", "GeminiFinal", "Gemini3"}

\* The slider values, in tenths: boosts from -2.0 to 2.0, gains 1.0 to 10.0.
EqualizerParams ==
    [gain_factor : {1, 3, 10}, low_freq_boost : {-20, -1, 0, 1, 20},
     high_freq_boost : {-20, -1, 0, 1, 20},
     target_rms : {DefaultParams.target_rms}]

\* A frame is about to pass the equalizer of a running thread.
InitEqualizer ==
    /\ variant \in EqualizerVariants
    /\ texts = PipelineTexts
    /\ playing = TRUE
    /\ processing_thread = None
    /\ nthreads = 0
    /\ InitPipeline
    /\ InitParamAccess
    /\ InitExtras
    /\ audio_params \in EqualizerParams
    /\ frame = NoFrame
    /\ returned = NoFrame
    /\ processed = <<>>
    /\ rms_after = 0
    /\ fed = [rate |-> 0, channels |-> 0]
    /\ sigPc = "low"
    /\ model_available = TRUE
    /\ reports = 0

NextEqualizer ==
    \/ EqualizeLow
    \/ EqualizeHigh

SpecEqualizer == InitEqualizer /\ [][NextEqualizer]_vars

\* ------------------------------------------------- the drain loops, by step
\* `while not q.empty(): ... q.get()` of the script, the test and the get as
\* two steps, with the processing thread putting on the queues in between.
\* The script runs of one session follow one another on one script thread,
\* and no other code calls get() on these queues.
drainFrame ==
    <<variant, playing, audio_queue, sinkLog, threadVars, meterLog, recogLog,
      uiError, branch, level_rms, texts, otherVars>>

\* Mutant: a test that never finds the queue empty.
QueueEmptyNever(q) == FALSE

\* queue.Queue().empty()
QueueEmpty(q) == q = <<>>

\* run(): the level of a frame is put on volume_queue and, in
\* hearing_supportWeb_GeminiFinal.py, the recognizer's result on
\* transcription_queue.
DrainProduce ==
    /\ nframes < MaxFrames
    /\ nframes' = nframes + 1
    /\ volume_queue' = Put(volume_queue, nframes + 1)
    /\ IF HasRecognizer(variant)
       THEN \E final \in BOOLEAN, text \in texts :
               transcription_queue' = Emit(transcription_queue, final, text)
       ELSE UNCHANGED transcription_queue
    /\ UNCHANGED <<volume_history, recorded, transcriptVars, uiPc,
                   drainFrame>>

\* A script run reaches the volume drain loop.
DrainBegin ==
    /\ uiPc = "idle"
    /\ uiPc' = "volume"
    /\ UNCHANGED <<nframes, volume_queue, transcription_queue,
                   volume_history, recorded, transcriptVars, drainFrame>>

\* while not st.session_state.volume_queue.empty():
DrainVolumeTest ==
    /\ uiPc = "volume"
    /\ uiPc' = IF ~QueueEmpty(volume_queue) THEN "volume_get"
               ELSE IF HasRecognizer(variant) THEN "transcribe"
               ELSE "idle"
    /\ UNCHANGED <<nframes, volume_queue, transcription_queue,
                   volume_history, recorded, transcriptVars, drainFrame>>

\* volume_history.append(volume_queue.get()); pop(0) beyond the bound.
\* get() blocks while the queue is empty.
DrainVolumeGet ==
    /\ uiPc = "volume_get"
    /\ DrainOne
    /\ uiPc' = "volume"
    /\ UNCHANGED <<nframes, transcription_queue, transcriptVars, drainFrame>>

\* while not st.session_state.transcription_queue.empty():
DrainTranscribeTest ==
    /\ uiPc = "transcribe"
    /\ uiPc' = IF ~QueueEmpty(transcription_queue) THEN "transcribe_get"
               ELSE "idle"
    /\ UNCHANGED <<nframes, volume_queue, transcription_queue,
                   volume_history, recorded, transcriptVars, drainFrame>>

\* text = transcription_queue.get(), applied to the session state.
DrainTranscribeGet ==
    /\ uiPc = "transcribe_get"
    /\ transcription_queue # <<>>
    /\ ApplyMessage(Get(transcription_queue).item)
    /\ transcription_queue' = Get(transcription_queue).rest
    /\ uiPc' = "transcribe"
    /\ UNCHANGED <<nframes, volume_queue, volume_history, recorded,
                   drainFrame>>

InitDrain ==
    /\ variant \in {"Web", "GeminiFinal"}
    /\ texts = PipelineTexts
    /\ playing = TRUE
    /\ processing_thread = None
    /\ nthreads = 0
    /\ InitCommon

NextDrain ==
    \/ DrainProduce
    \/ DrainBegin
    \/ DrainVolumeTest
    \/ DrainVolumeGet
    \/ DrainTranscribeTest
    \/ DrainTranscribeGet

SpecDrain == InitDrain /\ [][NextDrain]_vars

\* ------------------------------------------------------------------ claims
IsIncreasing(s) == \A i, j \in 1..Len(s) : i < j => s[i] < s[j]

IsPrefix(s, t) == Len(s) <= Len(t) /\ SubSeq(t, 1, Len(s)) = s

Elems(s) == { s[i] : i \in 1..Len(s) }

\* The frames on which an exception ended a thread.
CrashedFrames == { tframe[t] : t \in { u \in Threads : crashed[u] # "" } }

\* The frames a log passed over: older than one it holds, and not in it.
Skipped(log) ==
    { f \in 1..nframes : f \notin Elems(log) /\ \E g \in Elems(log) : f < g }

(* C1: the level meter (meterLog) and the recognizer (recogLog) observe the *)
(* frames in the order recv enqueued them, under every interleaving and    *)
(* however many frames are pending: both logs are increasing, every frame  *)
(* still pending is newer than every frame observed, and a frame is passed *)
(* over only when its own processing raised.                               *)
C1_FifoOrder ==
    /\ IsIncreasing(meterLog)
    /\ IsIncreasing(recogLog)
    /\ IsIncreasing(audio_queue)
    /\ \A f \in Elems(audio_queue), g \in Elems(meterLog) \cup Elems(recogLog) :
          g < f
    /\ ~CatchesException(variant) =>
          /\ Skipped(meterLog) \subseteq CrashedFrames
          /\ Skipped(recogLog) \subseteq CrashedFrames

\* Two frames metered and recognized in order while a third is pending.
C1_Witness ==
    /\ Len(meterLog) >= 2
    /\ Len(recogLog) >= 2
    /\ audio_queue # <<>>

C5_SingleThread ==
    /\ Cardinality({ t \in Threads : Alive(t) }) <= 1
    /\ \A t \in Threads : Alive(t) => processing_thread = t

\* A script run took the playing branch while the thread was running.
C5_Witness == branch = "keep" /\ Running /\ nthreads = 1

(* C6: the stop path taken while processing_thread is None raises no error *)
(* and leaves the thread handle, the threads, the queues and the histories *)
(* unchanged.                                                              *)
C6_StopWithoutStart ==
    [][(/\ uiPc = "lifecycle"
        /\ uiPc' # "lifecycle"
        /\ ~playing
        /\ processing_thread = None)
       => /\ ~uiError'
          /\ UNCHANGED <<processing_thread, nthreads, tstate, stop_event,
                         audio_queue, volume_queue, transcription_queue,
                         volume_history, history, current_transcription>>]_vars

\* The stop path ran before any thread was ever started.
C6_Witness == branch = "idle" /\ nthreads = 0 /\ ~uiError

(* C7 as stated: when the recognizer call raises on a frame, the frame has *)
(* been returned to the output sink and the processing thread is still     *)
(* alive to meter and recognize the later frames.                          *)
C7_RecognizerFailureSurvived ==
    \A t \in Threads :
        crashed[t] = "recognizer" =>
            /\ tframe[t] \in Elems(sinkLog)
            /\ Alive(t)

(* C8 as stated: a frame whose processing raises never ends the processing *)
(* loop: a processing thread ends only after its stop signal was set.      *)
C8_FrameErrorSurvived ==
    \A t \in Threads : tstate[t] = "dead" => stop_event[t]

(* C9: once stop() has set the stop signal the thread finishes at most one *)
(* further frame (the one in flight, or the one its pending get returns),  *)
(* takes no frame after that however many are queued, and leaves the loop  *)
(* only between frames.                                                    *)
C9_StopWithinOneFrame ==
    \A t \in Threads :
        /\ doneAfterStop[t] <= 1
        /\ doneAfterStop[t] = 1 => tstate[t] \in {"check", "dead"}
        /\ (tstate[t] = "dead" /\ crashed[t] = "") =>
              (stop_event[t] /\ tframe[t] = 0)

\* A stopped thread finished one frame and ended with frames still queued.
C9_Witness ==
    \E t \in Threads :
        /\ stop_event[t]
        /\ doneAfterStop[t] = 1
        /\ tstate[t] = "dead"
        /\ audio_queue # <<>>

C11_AtomicSnapshot ==
    readPc = NumParams => local_params \in writtenSets

\* The workers that are in a call into recognizer r.
InRecognizer(r) == { t \in Threads : tstate[t] = "accept" /\ wrecog[t] = r }

(* C12: in backUP/hearing_support1.py calls into one recognizer instance   *)
(* are never concurrent, a stop followed at once by a start included: of   *)
(* every recognizer at most one worker is alive, and so at most one thread *)
(* is inside AcceptWaveform/Result on it.                                  *)
C12_OneWorkerPerRecognizer ==
    /\ \A t, u \in Threads :
          (t # u /\ Alive(t) /\ Alive(u)) => wrecog[t] # wrecog[u]
    /\ \A r \in 0..MaxPresses : Cardinality(InRecognizer(r)) <= 1

\* Stop, then start before the first worker saw the flag: two workers are
\* inside AcceptWaveform at once, each on the recognizer of its own run.
C12_Witness ==
    /\ tstate[1] = "accept"
    /\ tstate[2] = "accept"
    /\ wrecog[1] # wrecog[2]

\* run() goes on as long as its thread lives: the scheduler does not starve
\* a runnable thread.
SpecLive == Init /\ [][Next]_vars /\ WF_vars(Worker)

\* No frame is held twice: not by the queue and a thread, not by two threads.
C13_HeldOnce ==
    /\ IsIncreasing(audio_queue)
    /\ IsIncreasing(meterLog)
    /\ \A t \in Threads :
          tframe[t] # 0 =>
              /\ tframe[t] \notin Elems(audio_queue)
              /\ \A u \in Threads : u # t => tframe[u] # tframe[t]
    /\ \A f \in Elems(audio_queue) : f \notin Elems(meterLog)

\* The queue changes only by recv appending a new frame or by one thread,
\* with no frame in hand, taking the frame at the head.
C13_TakenOnce ==
    audio_queue' # audio_queue =>
        \/ /\ nframes' = nframes + 1
           /\ audio_queue' = Append(audio_queue, nframes')
        \/ /\ audio_queue # <<>>
           /\ audio_queue' = Tail(audio_queue)
           /\ \E t \in Threads :
                 /\ Alive(t)
                 /\ tframe[t] = 0
                 /\ tframe' = [tframe EXCEPT ![t] = Head(audio_queue)]

\* A frame queued while the pipeline is Running is taken off the queue, and
\* what is taken is processed to the end of the iteration, unless the
\* pipeline leaves Running first.
C13_EventuallyTaken ==
    \A f \in 1..MaxFrames :
        /\ (Running /\ f \in Elems(audio_queue))
              ~> (f \notin Elems(audio_queue) \/ ~Running)
        /\ (\E t \in Threads : Alive(t) /\ tframe[t] = f)
              ~> (\A t \in Threads : ~(Alive(t) /\ tframe[t] = f))

(* C13: every frame put on the frame queue is taken off it at most once    *)
(* and by one thread only (a frame is never held by the queue and a thread *)
(* or by two threads, frames are new when enqueued and leave the queue     *)
(* only at its head into the hand of one thread), and while the pipeline   *)
(* stays Running every queued frame is eventually taken and its iteration  *)
(* of the loop completed.                                                  *)
C13_ConsumedExactlyOnce ==
    /\ []C13_HeldOnce
    /\ [][C13_TakenOnce]_vars
    /\ C13_EventuallyTaken

\* The thread, still running, has metered every frame that was delivered.
C13_Witness ==
    /\ Running
    /\ nframes = MaxFrames
    /\ Len(meterLog) = MaxFrames
    /\ audio_queue = <<>>

\* The Final texts the recognizer emitted that wait for the script, oldest
\* first.
PendingFinals ==
    IF variant = "ChatGPT" THEN final_texts
    ELSE SelectSeq(transcription_queue, LAMBDA m : ~StartsWithPartial(m))

\* s without its first k items.
DropFirst(s, k) == SubSeq(s, k + 1, Len(s))

(* C14: the Final history is append-only: every step leaves the previous   *)
(* history as a prefix of the new one, what it appends are the oldest      *)
(* waiting Final texts in the order the recognizer emitted them (the       *)
(* waiting texts themselves only lose items at the front and gain one at   *)
(* the back), and the history shrinks only in the step of the explicit     *)
(* clear button.                                                           *)
C14_AppendOnly ==
    [][/\ \/ uiPc = "idle" /\ branch' = "clear" /\ history' = <<>>
          \/ /\ IsPrefix(history, history')
             /\ IsPrefix(DropFirst(history', Len(history)), PendingFinals)
       /\ \/ \E k \in 0..Len(PendingFinals) :
                PendingFinals' = DropFirst(PendingFinals, k)
          \/ /\ Len(PendingFinals') = Len(PendingFinals) + 1
             /\ IsPrefix(PendingFinals, PendingFinals')]_vars

\* Two different Final texts are in the history, a third still waiting.
C14_Witness ==
    /\ Len(history) >= 2
    /\ history[1] # history[2]
    /\ PendingFinals # <<>>

\* A text with nothing in it but whitespace, its "partial:" tag set aside.
IsBlank(text) == Strip(RemovePartialTag(text)) = <<>>

(* C15 as stated: no empty or whitespace-only recognizer result is ever    *)
(* appended to the Final history or put on the transcription queue, Final  *)
(* or Partial.                                                             *)
C15_BlankSuppressed ==
    /\ \A i \in 1..Len(history) : ~IsBlank(history[i])
    /\ \A i \in 1..Len(transcription_queue) : ~IsBlank(transcription_queue[i])

(* C16 as stated: the frame the capture callback returns to the output sink *)
(* holds the processed samples (gain and the other transforms applied,     *)
(* then clipped), with the layout and the sample rate of the input.        *)
C16_ReturnsTransformed ==
    (returned # NoFrame /\ processed # <<>>) =>
        /\ returned.samples = processed
        /\ returned.rate = frame.rate
        /\ returned.channels = frame.channels

\* The boundary run() pins a sample at: np.clip's bounds in
\* hearing_supportWeb.py, the int16 range elsewhere.
LowBoundary(v) == IF v = "Web" THEN -ClipMax ELSE Int16Min

(* C17 as stated: in hearing_supportWeb.py, hearing_supportWeb_GeminiFinal *)
(* .py and device_select.py every processed sample lies in the 16-bit range *)
(* and is the amplified value clamped to the boundary, for every sample    *)
(* and every gain: a value amplified beyond the range never wraps.         *)
C17_ClampedNoWrap ==
    (variant \in {"Web", "GeminiFinal", "device_select"} /\ processed # <<>>)
    => \A i \in 1..Len(processed) :
          /\ Int16Min <= processed[i]
          /\ processed[i] <= Int16Max
          /\ processed[i] =
                Clip(Amplified(variant, frame.samples, audio_params)[i],
                     LowBoundary(variant), Int16Max)

\* Every sample of the frame has the same magnitude, and it is not silence.
IsConstantAmplitude(s) ==
    /\ s # <<>>
    /\ Abs(s[1]) > 0
    /\ \A i \in 1..Len(s) : Abs(s[i]) = Abs(s[1])

(* C18: in hearing_supportWeb.py, for a constant-amplitude non-silent frame *)
(* with gain_factor 1.0, the boosts 0 and a target RMS T up to the clipping *)
(* boundary, the RMS published for the processed frame is within 5% of T.  *)
C18_AgcReachesTarget ==
    (/\ variant = "Web"
     /\ sigPc = "done"
     /\ IsConstantAmplitude(frame.samples)
     /\ audio_params.gain_factor = 1
     /\ audio_params.target_rms <= ClipMax)
    => 20 * Abs(rms_after - audio_params.target_rms)
          <= audio_params.target_rms

\* Input RMS 1000, target 5000, gain 1.0: the published level is 5000.
C18_Witness ==
    /\ variant = "Web"
    /\ sigPc = "done"
    /\ frame.samples = <<1000, -1000>>
    /\ audio_params.gain_factor = 1
    /\ audio_params.target_rms = 5000
    /\ rms_after = 5000

(* C19 as stated: the PCM given to AcceptWaveform is in the format the      *)
(* recognizer was made for, 16 kHz mono, whatever the sample rate and the  *)
(* channel count of the frame that arrived.                                *)
C19_FedRecognizerFormat ==
    fed.rate # 0 => (fed.rate = RecognizerRate /\ fed.channels = 1)

RecvAccesses ==
    \/ variant = "Gemini" /\ recvPc = "append"
    \/ variant = "Copilot" /\ recvPc \in {"volume", "recognize"}

\* The script is at a statement that reads or writes them.
ScriptAccesses ==
    \/ variant = "Gemini" /\ uiPc \in {"extend", "clear", "drain"}
    \/ variant = "Copilot" /\ uiPc \in {"chart", "partial", "history"}

(***************************************************************************)
(* C21: every access to the volume-history buffer and to the transcript    *)
(* state is made by a thread that holds the one lock, so the capture       *)
(* callback and the script are never both at an access.                    *)
(***************************************************************************)
C21_ExclusiveAccess ==
    /\ RecvAccesses => lock = "recv"
    /\ ScriptAccesses => lock = "script"
    /\ ~(RecvAccesses /\ ScriptAccesses)

(***************************************************************************)
(* C22: the capture callback only hands the frame on and returns: no step  *)
(* the callback takes between the frame's arrival and its return meters    *)
(* the frame or calls the recognizer.                                      *)
(***************************************************************************)
C22_CallbackOnlyEnqueues ==
    [][recvPc # "idle" /\ recvPc' # recvPc
          => recogLog' = recogLog /\ volume_history' = volume_history]_vars

(***************************************************************************)
(* C30: in hearing_supportWeb_Gemini.py, of the frames recv has returned,  *)
(* the recognizer was given exactly those whose number, counted from the   *)
(* start of the stream, is a multiple of five.                             *)
(***************************************************************************)
C30_EveryFifthFrame ==
    variant = "Gemini" =>
        \A k \in Elems(sinkLog) :
            (k \in Elems(recogLog)) <=> (k % FeedEvery = 0)

C24_CurrentPartialIsLatest ==
    [][/\ variant = "GeminiFinal" =>
            IF Len(applied') > Len(applied)
            THEN LET m == Get(transcription_queue).item IN
                 current_transcription' =
                     IF StartsWithPartial(m) THEN Tail(m) ELSE <<>>
            ELSE current_transcription' = current_transcription
       /\ variant = "ChatGPT" =>
            (partial_text' # partial_text => is_recognizing)]_vars

\* The pipeline with a thread that keeps taking steps while it is alive and
\* a join() that returns once the thread has ended.
SpecStop == Init /\ [][Next]_vars /\ WF_vars(Worker) /\ WF_vars(Join)

(***************************************************************************)
(* C25: stop() on a Running pipeline returns: once the stop signal is set  *)
(* and the script waits in join(), the join returns, and when it returns   *)
(* the thread has terminated and the thread handle is None.                *)
(***************************************************************************)
C25_StopReturns ==
    /\ (uiPc = "join") ~> (uiPc # "join" /\ processing_thread = None)
    /\ [][uiPc = "join" /\ uiPc' # "join"
            => /\ ~Alive(processing_thread)
               /\ stop_event[processing_thread]
               /\ processing_thread' = None]_vars
    /\ [](uiPc = "join" => stop_event[processing_thread])

\* stop() has returned for a thread that finished a frame after the stop
\* signal was set, frames that arrived meanwhile being left on the queue.
C25_Witness ==
    /\ processing_thread = None
    /\ branch = "stop"
    /\ uiPc # "join"
    /\ audio_queue # <<>>
    /\ \E t \in Threads :
          /\ tstate[t] = "dead"
          /\ stop_event[t]
          /\ crashed[t] = ""
          /\ doneAfterStop[t] = 1

(***************************************************************************)
(* C26: a get that times out on the empty queue, the stop signal not set,  *)
(* does not end the thread: the thread goes back to the stop check with    *)
(* the volume and transcript outputs as they were, the check sends it to   *)
(* the get again, and a pipeline that is Running and idle stays Running.   *)
(***************************************************************************)
C26_TimeoutLoopsBack ==
    [][\A t \in Threads :
          /\ (tstate[t] = "get" /\ audio_queue = <<>> /\ tstate'[t] # "get")
                => /\ tstate'[t] = "check"
                   /\ UNCHANGED <<workerOut, transcriptVars, volume_history>>
          /\ (tstate[t] = "check" /\ ~stop_event[t] /\ tstate'[t] # "check")
                => tstate'[t] = "get"
          /\ (/\ processing_thread = t
              /\ tstate[t] \in {"get", "check"}
              /\ ~stop_event[t])
                => Running']_vars

\* No frame was ever delivered and a later script run has found the thread
\* alive: the thread is between the get that timed out and the stop check.
C26_Witness ==
    /\ Running
    /\ nframes = 0
    /\ branch = "keep"
    /\ tstate[processing_thread] = "check"
    /\ ~stop_event[processing_thread]

(***************************************************************************)
(* C27: a parameter value the control layer has written is the value the   *)
(* processing uses for every frame it starts on afterwards: each read      *)
(* run() makes of a parameter whose latest slider value has been written   *)
(* returns that slider value, the thread not having been restarted.        *)
(***************************************************************************)
C27_WriteReachesNextFrame ==
    [][\A i \in 1..NumParams :
          (readPc = i - 1 /\ readPc' = i /\ writePc >= i)
             => local_params'[ParamOrder[i]] = slider[ParamOrder[i]]]_vars

\* The threads whose run() has not ended.
LiveThreads == { t \in Threads : Alive(t) }

(***************************************************************************)
(* C28: when a script run leaves the thread-management block with the      *)
(* stream playing, exactly one processing thread is alive and it is the    *)
(* one st.session_state.processing_thread names: a thread that has died    *)
(* has been replaced.                                                      *)
(***************************************************************************)
C28_OneLiveThreadAfterPass ==
    [][(uiPc = "lifecycle" /\ uiPc' # "lifecycle" /\ playing /\ ~uiError')
          => /\ processing_thread' # None
             /\ LiveThreads' = {processing_thread'}]_vars

IsSuffix(s, t) ==
    Len(s) <= Len(t) /\ SubSeq(t, Len(t) - Len(s) + 1, Len(t)) = s

C31_BandDesignValid ==
    /\ sigPc # "failed"
    /\ (sigPc \in {"high", "done"} /\ audio_params.low_freq_boost # 0)
          => ButterAccepts(ButterBandpass(LowBand(variant), FilterRate))
    /\ (sigPc = "done" /\ audio_params.high_freq_boost # 0)
          => ButterAccepts(ButterBandpass(HighBand(variant), FilterRate))

IsSilent(s) == \A i \in 1..Len(s) : s[i] = 0

(***************************************************************************)
(* C33: the automatic gain control of hearing_supportWeb.py, given a frame *)
(* of zeros, ends with a frame of zeros and publishes the level 0, for     *)
(* every target level and every gain.                                      *)
(***************************************************************************)
C33_SilentFrameStaysSilent ==
    (variant = "Web" /\ IsSilent(frame.samples) /\ sigPc = "done")
        => /\ Len(processed) = Len(frame.samples)
           /\ IsSilent(processed)
           /\ rms_after = 0

\* A frame of two zeros has passed the gain control with the highest
\* target and the gain 3.
C33_Witness ==
    /\ variant = "Web"
    /\ sigPc = "done"
    /\ frame.samples = <<0, 0>>
    /\ audio_params.target_rms = 50000
    /\ audio_params.gain_factor = 3
    /\ processed = <<0, 0>>
    /\ rms_after = 0

(***************************************************************************)
(* C34: the script never waits in a get() of its drain loops: whenever it  *)
(* is about to call volume_queue.get() or transcription_queue.get() the    *)
(* queue holds an item, whatever the processing thread has put meanwhile.  *)
(***************************************************************************)
C34_DrainNeverBlocks ==
    /\ uiPc = "volume_get" => volume_queue # <<>>
    /\ uiPc = "transcribe_get" => transcription_queue # <<>>

\* The script is about to take a message, having drained the levels, while
\* the thread has put another level behind its back.
C34_Witness ==
    /\ uiPc = "transcribe_get"
    /\ volume_history # <<>>
    /\ volume_queue # <<>>
    /\ Len(transcription_queue) >= 2

\* The message run() puts on transcription_queue for an event: the text of
\* a Final as it is, the text of a Partial behind the tag.
Tagged(final, text) == Emit(<<>>, final, text)[1]

\* The event the drain loop applies for a message: its kind by
\* startswith("partial:"), its text by replace("partial:", "") for a Partial
\* and the message itself for a Final.
Untagged(m) ==
    IF StartsWithPartial(m)
    THEN [final |-> FALSE, text |-> RemovePartialTag(m)]
    ELSE [final |-> TRUE, text |-> m]

(***************************************************************************)
(* C35: the tagging round-trips: for every text the recognizer returns     *)
(* that is put on the queue, a Final is applied as a Final and a Partial   *)
(* as a Partial, each with the text it was emitted with.                   *)
(***************************************************************************)
C35_TagRoundTrips ==
    \A text \in texts, final \in BOOLEAN :
        Strip(text) # <<>> =>
            Untagged(Tagged(final, text)) = [final |-> final, text |-> text]

====
